---- MODULE Spec2Model ----
(***************************************************************************)
(* Model of the AI-orchestration layer of auditgithub:                     *)
(*   - the provider adapters' analyze_stuck_scan and their cost ledger     *)
(*     (src/src/ai_agent/providers/{openai,claude,ollama}.py),             *)
(*   - the ReasoningEngine and its budget gate                             *)
(*     (src/src/ai_agent/reasoning.py),                                    *)
(*   - the generate -> execute -> repair loop of the architecture          *)
(*     endpoints (src/src/api/routers/ai.py).                              *)
(*                                                                         *)
(* Units.  Token counts are in thousands of tokens (Ktok); money is in     *)
(* micro-dollars, so that every price of the PRICING tables is an integer  *)
(* per Ktok ($0.01 per 1K tokens = 10000; $15 per 1M tokens = 15000).      *)
(* Confidences are in hundredths (0.9 = 90).  The model computes with      *)
(* exact integers where the code computes with binary floats.              *)
(***************************************************************************)
EXTENDS Integers, Sequences, FiniteSets, TLC

VARIABLES
    provider,          \* ReasoningEngine.provider: [kind, model], fixed at construction
    total_cost,        \* AIProvider._total_cost
    total_tokens,      \* AIProvider._total_tokens
    analysis_history,  \* ReasoningEngine.analysis_history
    inflight,          \* analyze_stuck_scan coroutines suspended at the adapter's API await
    delegated,         \* calls served so far by the engine's delegating operations
    last,              \* the latest step of an orchestrator operation, as its caller sees it
    adapter_io,        \* the latest direct adapter call: response received and analysis returned
    dg,                \* the architecture request being served by the router
    settings,          \* api/config.py settings the router and the agent are built from
    audit              \* an observer's tally of what the calls so far added to the ledger

vars == <<provider, total_cost, total_tokens, analysis_history, inflight,
          delegated, last, adapter_io, dg, settings, audit>>

----------------------------------------------------------------------------
(* Bounds of the model *)

\* longest analysis history (admitted calls, completed or in flight)
MaxHistory == 3
\* most analyze_stuck_scan coroutines suspended at once
MaxInflight == 2
\* most calls of triage_finding, generate_remediation, explain_timeout and
\* generate_architecture_overview in one run
MaxDelegated == 2
\* longest remediation_suggestions list in a model response
MaxSuggestions == 2
\* largest token count (Ktok) handed to estimate_cost on its own
MaxTokens == 3
\* budget denials the observer tells apart
MaxDenials == 2

----------------------------------------------------------------------------
(* Program constants *)

\* ReasoningEngine.__init__: max_cost_per_analysis = 0.50 (USD), in micro-dollars
max_cost_per_analysis == 500000

\* OpenAIProvider.PRICING, micro-dollars per Ktok
OPENAI_PRICING ==
    [m \in {"gpt-4-turbo", "gpt-4", "gpt-4-turbo-preview", "gpt-4o", "gpt-5"} |->
        CASE m = "gpt-4-turbo"         -> [input |-> 10000, output |-> 30000]
          [] m = "gpt-4"               -> [input |-> 30000, output |-> 60000]
          [] m = "gpt-4-turbo-preview" -> [input |-> 10000, output |-> 30000]
          [] m = "gpt-4o"              -> [input |-> 5000,  output |-> 15000]
          [] m = "gpt-5"               -> [input |-> 10000, output |-> 30000]]

\* ClaudeProvider.PRICING, micro-dollars per Ktok
CLAUDE_PRICING ==
    [m \in {"claude-3-opus-20240229", "claude-3-sonnet-20240229",
            "claude-3-haiku-20240307"} |->
        CASE m = "claude-3-opus-20240229"   -> [input |-> 15000, output |-> 75000]
          [] m = "claude-3-sonnet-20240229" -> [input |-> 3000,  output |-> 15000]
          [] m = "claude-3-haiku-20240307"  -> [input |-> 250,   output |-> 1250]]

\* The enumerations of providers/base.py: the values a response may name
SeverityValues == {"info", "low", "medium", "high", "critical"}
RemediationActionValues == {"increase_timeout", "skip_scanner"}

----------------------------------------------------------------------------
(* Inputs: the provider an engine is built on, and what the remote model    *)
(* answers                                                                  *)

Providers ==
    { [kind |-> "openai", model |-> "gpt-4-turbo"],
      [kind |-> "claude", model |-> "claude-3-opus-20240229"],
      [kind |-> "ollama", model |-> "llama3"] }

\* usage reported with a response: prompt and completion tokens, in Ktok.
\* With gpt-4-turbo these cost $0.04, exactly $0.50, and $0.66.
Usages ==
    { [prompt |-> 1, completion |-> 1],
      [prompt |-> 47, completion |-> 1],
      [prompt |-> 60, completion |-> 2] }

\* One element of the response's "remediation_suggestions" array.
SuggestionEntries ==
    { [mapping |-> TRUE,  action |-> "increase_timeout", confidence |-> "0.9"],
      [mapping |-> TRUE,  action |-> "skip_scanner",     confidence |-> "absent"],
      [mapping |-> TRUE,  action |-> "reboot",           confidence |-> "0.9"],
      [mapping |-> TRUE,  action |-> "absent",           confidence |-> "0.9"],
      [mapping |-> TRUE,  action |-> "increase_timeout", confidence |-> "abc"],
      [mapping |-> TRUE,  action |-> "skip_scanner",     confidence |-> "null"],
      [mapping |-> FALSE, action |-> "absent",           confidence |-> "absent"] }

RECURSIVE SeqsUpTo(_, _)
SeqsUpTo(S, n) ==
    IF n = 0 THEN {<<>>}
    ELSE LET shorter == SeqsUpTo(S, n - 1)
         IN  shorter \cup {Append(s, e) : s \in {t \in shorter : Len(t) = n - 1}, e \in S}

\* A response whose call failed, or whose content is not a JSON object, carries
\* no fields.
BareResponse(api, content, usage) ==
    [api |-> api, content |-> content, severity |-> "absent", confidence |-> "absent",
     suggestions |-> <<>>, usage |-> usage]

NoUsage == [prompt |-> 0, completion |-> 0]

\* Every response of the bounded input space:
\*   api      "error": the API call raised; "ok": it returned content and usage
\*   content  "empty" | "unparseable" (not JSON) | "nondict" (JSON, not an object)
\*            | "object" (a JSON object with the fields below)
Responses ==
    {BareResponse("error", "empty", NoUsage)}
    \cup {BareResponse("ok", c, u) : c \in {"empty", "unparseable", "nondict"}, u \in Usages}
    \cup [api : {"ok"}, content : {"object"},
          severity : {"absent", "high", "urgent"},
          confidence : {"absent", "0.9", "1.5", "abc"},
          suggestions : SeqsUpTo(SuggestionEntries, MaxSuggestions),
          usage : Usages]

----------------------------------------------------------------------------
(* The base types of providers/base.py.  AIAnalysis and                     *)
(* RemediationSuggestion are the plain field records the adapters build by  *)
(* keyword; get_total_cost reads the counter the adapters advance.          *)

\* (the free-text explanation field is left out)
AIAnalysis(root_cause, severity, remediation_suggestions, confidence, estimated_cost, tokens_used) ==
    [root_cause |-> root_cause, severity |-> severity,
     remediation_suggestions |-> remediation_suggestions,
     confidence |-> confidence, estimated_cost |-> estimated_cost,
     tokens_used |-> tokens_used]

RemediationSuggestion(action, confidence) ==
    [action |-> action, confidence |-> confidence]

\* get_total_cost with a worst-case reservation for every call in flight
get_total_cost_with_inflight == total_cost + inflight * (max_cost_per_analysis + 1)

\* ReasoningEngine.get_total_cost: the provider's cumulative cost
get_total_cost == total_cost

\* Python's float() on a JSON value: [err, v], v in hundredths
Float(x) ==
    CASE x = "0.9"  -> [err |-> "none", v |-> 90]
      [] x = "1.5"  -> [err |-> "none", v |-> 150]
      [] x = "0.5"  -> [err |-> "none", v |-> 50]
      [] x = "0.0"  -> [err |-> "none", v |-> 0]
      [] x = "null" -> [err |-> "TypeError", v |-> 0]
      [] OTHER      -> [err |-> "ValueError", v |-> 0]

\* dict.get(key, default) on a field that may be absent
Get(field, default) == IF field = "absent" THEN default ELSE field

----------------------------------------------------------------------------
(* The adapters: estimate_cost and analyze_stuck_scan                       *)

\* OpenAIProvider.estimate_cost with the output charged only beyond the input
openai_estimate_cost_beyond_input(model, input_tokens, output_tokens) ==
    LET pricing == IF model \in DOMAIN OPENAI_PRICING THEN OPENAI_PRICING[model]
                   ELSE OPENAI_PRICING["gpt-4-turbo"]
    IN  input_tokens * pricing.input
        + (IF output_tokens > input_tokens THEN output_tokens - input_tokens ELSE 0)
          * pricing.output

\* OpenAIProvider.estimate_cost: unknown model ids use the gpt-4-turbo row
openai_estimate_cost(model, input_tokens, output_tokens) ==
    LET pricing == IF model \in DOMAIN OPENAI_PRICING THEN OPENAI_PRICING[model]
                   ELSE OPENAI_PRICING["gpt-4-turbo"]
    IN  input_tokens * pricing.input + output_tokens * pricing.output

\* ClaudeProvider.estimate_cost: unknown model ids use the claude-3-sonnet row
claude_estimate_cost(model, input_tokens, output_tokens) ==
    LET pricing == IF model \in DOMAIN CLAUDE_PRICING THEN CLAUDE_PRICING[model]
                   ELSE CLAUDE_PRICING["claude-3-sonnet-20240229"]
    IN  input_tokens * pricing.input + output_tokens * pricing.output

\* OllamaProvider.estimate_cost
ollama_estimate_cost(model, input_tokens, output_tokens) == 0

estimate_cost(p, input_tokens, output_tokens) ==
    CASE p.kind = "openai" -> openai_estimate_cost(p.model, input_tokens, output_tokens)
      [] p.kind = "claude" -> claude_estimate_cost(p.model, input_tokens, output_tokens)
      [] p.kind = "ollama" -> ollama_estimate_cost(p.model, input_tokens, output_tokens)

\* Evaluating RemediationSuggestion(action=RemediationAction(sug["action"]), ...,
\* confidence=float(sug.get("confidence", 0.5)), ...) for one entry, left to right:
\* the exception it raises, or the suggestion built.
SuggestionOutcome(sug) ==
    LET none == RemediationSuggestion("none", 0)
        conf == Float(Get(sug.confidence, "0.5"))
    IN  IF ~sug.mapping THEN [err |-> "TypeError", value |-> none]
        ELSE IF sug.action = "absent" THEN [err |-> "KeyError", value |-> none]
        ELSE IF sug.action \notin RemediationActionValues
             THEN [err |-> "ValueError", value |-> none]
        ELSE IF conf.err # "none" THEN [err |-> conf.err, value |-> none]
        ELSE [err |-> "none", value |-> RemediationSuggestion(sug.action, conf.v)]

\* The exceptions the suggestion loop catches per entry: OpenAI and Claude wrap the
\* entry in try/except (KeyError, ValueError); Ollama has no try in the loop.
CaughtPerSuggestion(kind) ==
    IF kind \in {"openai", "claude"} THEN {"KeyError", "ValueError"} ELSE {}

\* The loop over analysis_data.get("remediation_suggestions", []):
\* [err, list], err the exception that left the loop, if any.
RECURSIVE build_suggestions(_, _, _)
build_suggestions(kind, sugs, acc) ==
    IF sugs = <<>> THEN [err |-> "none", list |-> acc]
    ELSE LET o == SuggestionOutcome(Head(sugs))
         IN  IF o.err = "none"
             THEN build_suggestions(kind, Tail(sugs), Append(acc, o.value))
             ELSE IF o.err \in CaughtPerSuggestion(kind)
             THEN build_suggestions(kind, Tail(sugs), acc)
             ELSE [err |-> o.err, list |-> <<>>]

\* The adapters' except-branch: the failure fallback
FailedAnalysis == AIAnalysis("AI analysis failed", "medium", <<>>, 0, 0, 0)

\* analysis_data of a parsed JSON object
ResponseData(resp) ==
    [root_cause |-> "from response", severity |-> resp.severity,
     confidence |-> resp.confidence, suggestions |-> resp.suggestions]

\* OpenAI's substitute analysis_data when json.loads raises JSONDecodeError
ParseFallbackData ==
    [root_cause |-> "Failed to parse AI response", severity |-> "medium",
     confidence |-> "0.0", suggestions |-> <<>>]

\* "Build remediation suggestions" and "Build AI analysis": the AIAnalysis built
\* from analysis_data, or the fallback when any step of it raises.
build_analysis(kind, data, cost, tokens) ==
    LET s    == build_suggestions(kind, data.suggestions, <<>>)
        sev  == Get(data.severity, "medium")
        conf == Float(Get(data.confidence, "0.5"))
    IN  IF s.err # "none" \/ sev \notin SeverityValues \/ conf.err # "none"
        THEN FailedAnalysis
        ELSE AIAnalysis(data.root_cause, sev, s.list, conf.v, cost, tokens)

\* OpenAIProvider.analyze_stuck_scan on a response: the analysis returned and
\* what the call added to _total_cost and _total_tokens.
openai_analyze_stuck_scan(p, resp) ==
    LET cost   == estimate_cost(p, resp.usage.prompt, resp.usage.completion)
        tokens == resp.usage.prompt + resp.usage.completion
    IN  IF resp.api = "error" \/ resp.content = "empty"
        THEN [analysis |-> FailedAnalysis, dcost |-> 0, dtokens |-> 0]
        ELSE IF resp.content = "nondict"
        THEN [analysis |-> FailedAnalysis, dcost |-> cost, dtokens |-> tokens]
        ELSE [analysis |-> build_analysis(p.kind,
                              IF resp.content = "unparseable" THEN ParseFallbackData
                              ELSE ResponseData(resp), cost, tokens),
              dcost |-> cost, dtokens |-> tokens]

\* ClaudeProvider.analyze_stuck_scan: json.loads is inside the outer try, before
\* the counters are advanced.
claude_analyze_stuck_scan(p, resp) ==
    LET cost   == estimate_cost(p, resp.usage.prompt, resp.usage.completion)
        tokens == resp.usage.prompt + resp.usage.completion
    IN  IF resp.api = "error" \/ resp.content \in {"empty", "unparseable"}
        THEN [analysis |-> FailedAnalysis, dcost |-> 0, dtokens |-> 0]
        ELSE IF resp.content = "nondict"
        THEN [analysis |-> FailedAnalysis, dcost |-> cost, dtokens |-> tokens]
        ELSE [analysis |-> build_analysis(p.kind, ResponseData(resp), cost, tokens),
              dcost |-> cost, dtokens |-> tokens]

\* OllamaProvider.analyze_stuck_scan with the tokens metered into _total_cost
ollama_analyze_stuck_scan_metered(p, resp) ==
    LET tokens == resp.usage.prompt + resp.usage.completion
    IN  IF resp.api = "error" \/ resp.content \in {"empty", "unparseable"}
        THEN [analysis |-> FailedAnalysis, dcost |-> 0, dtokens |-> 0]
        ELSE [analysis |-> FailedAnalysis, dcost |-> tokens * 10000, dtokens |-> tokens]

\* OllamaProvider.analyze_stuck_scan: only the token counter is advanced, and
\* the analysis reports estimated_cost 0.0.
ollama_analyze_stuck_scan(p, resp) ==
    LET tokens == resp.usage.prompt + resp.usage.completion
    IN  IF resp.api = "error" \/ resp.content \in {"empty", "unparseable"}
        THEN [analysis |-> FailedAnalysis, dcost |-> 0, dtokens |-> 0]
        ELSE IF resp.content = "nondict"
        THEN [analysis |-> FailedAnalysis, dcost |-> 0, dtokens |-> tokens]
        ELSE [analysis |-> build_analysis(p.kind, ResponseData(resp), 0, tokens),
              dcost |-> 0, dtokens |-> tokens]

provider_analyze_stuck_scan(p, resp) ==
    CASE p.kind = "openai" -> openai_analyze_stuck_scan(p, resp)
      [] p.kind = "claude" -> claude_analyze_stuck_scan(p, resp)
      [] p.kind = "ollama" -> ollama_analyze_stuck_scan(p, resp)

----------------------------------------------------------------------------
(* The adapters' other operations.  A response to them: whether the API     *)
(* call raised, whether the content parses as JSON, and the usage reported. *)

OtherResponses ==
    {[api |-> "error", parse |-> "ok", usage |-> NoUsage]}
    \cup [api : {"ok"}, parse : {"ok", "bad"}, usage : {[prompt |-> 60, completion |-> 2]}]

\* Adapters whose counters only analyze_stuck_scan advances
TracksCost_analysis_only(kind, op) == FALSE

\* The adapter operations that add their cost to _total_cost / _total_tokens
\* after a successful API call: every one of OpenAI's, and Claude's explain_timeout.
TracksCost(kind, op) ==
    \/ kind = "openai"
    \/ kind = "claude" /\ op = "explain_timeout"

\* An adapter operation other than analyze_stuck_scan: where its value comes
\* from and what it adds to the counters.  Each catches every exception itself.
provider_call(p, op, resp) ==
    LET tracked == resp.api = "ok" /\ TracksCost(p.kind, op)
        parsed  == op \in {"triage_finding", "generate_remediation"}
    IN  [raised  |-> FALSE,
         value   |-> IF resp.api = "error" THEN "adapter fallback"
                     ELSE IF parsed /\ resp.parse = "bad" THEN "adapter parse fallback"
                     ELSE "model",
         dcost   |-> IF tracked
                     THEN estimate_cost(p, resp.usage.prompt, resp.usage.completion)
                     ELSE 0,
         dtokens |-> IF tracked THEN resp.usage.prompt + resp.usage.completion ELSE 0]

----------------------------------------------------------------------------
(* ReasoningEngine                                                          *)

RepoName == "svc-gateway"

\* The budget check at the top of analyze_stuck_scan.  average_cost =
\* current_cost / len(history) > max is compared here as
\* current_cost > max * len(history), the same in exact arithmetic.
BudgetExceeded_offbyone(current_cost, n) ==
    IF n > 0 THEN current_cost > max_cost_per_analysis * (n + 1)
    ELSE current_cost > max_cost_per_analysis

BudgetExceeded_strict(current_cost, n) ==
    IF n > 0 THEN current_cost >= max_cost_per_analysis * n
    ELSE current_cost > max_cost_per_analysis

BudgetExceeded(current_cost, n) ==
    IF n > 0 THEN current_cost > max_cost_per_analysis * n
    ELSE current_cost > max_cost_per_analysis

\* _create_fallback_analysis with the default confidence of a parsed answer
create_fallback_analysis_half(error_msg) ==
    AIAnalysis("AI analysis unavailable: " \o error_msg, "medium", <<>>, 50, 0, 0)

\* ReasoningEngine._create_fallback_analysis
create_fallback_analysis(error_msg) ==
    AIAnalysis("AI analysis unavailable: " \o error_msg, "medium", <<>>, 0, 0, 0)

\* The operations that run the budget check before calling the adapter
ConsultsBudgetGate_all(op) == TRUE

ConsultsBudgetGate(op) == op = "analyze_stuck_scan"

\* The value each orchestrator operation returns from its except-branch
OrchestratorFallback(op, error_msg) ==
    IF op = "analyze_stuck_scan" THEN create_fallback_analysis(error_msg)
    ELSE "orchestrator fallback"

\* try: ... except Exception: return <fallback>, around every orchestrator body.
\* An outcome is [raised, value]; a raised outcome's value is the exception text.
except_Exception_reraise(op, outcome) == outcome

except_Exception(op, outcome) ==
    IF outcome.raised
    THEN [raised |-> FALSE, value |-> OrchestratorFallback(op, outcome.value)]
    ELSE outcome

\* What the caller of an orchestrator operation observes at one step of it:
\*   phase    "call": the synchronous part up to the adapter's await;
\*            "return": the part after the adapter's answer
\*   gate     "admit" | "deny" | "none" (the budget check was not run)
\*   invoked  the adapter's method was called
\*   returned the operation has returned to its caller, with result
\*   raised   the operation raised to its caller
Observed(op, phase, gate, invoked, returned, outcome) ==
    [op |-> op, phase |-> phase, gate |-> gate, invoked |-> invoked,
     returned |-> returned, raised |-> outcome.raised, result |-> outcome.value]

Pending == [raised |-> FALSE, value |-> "pending"]

\* One entry of analysis_history: of the analysis stored in it, the model
\* keeps the reported cost and tokens.
HistoryEntry(analysis) ==
    [repo_name |-> RepoName,
     analysis |-> [estimated_cost |-> analysis.estimated_cost,
                   tokens_used |-> analysis.tokens_used]]

\* self._total_cost += cost, self._total_tokens += ...: no await stands between
\* the read and the write, so the sum is of the counter's current value
AddToCounter_overwrite(counter, amount) == amount

AddToCounter(counter, amount) == counter + amount

\* The history after a denied call: the denial returns from inside the budget
\* check, before the append that follows the adapter's answer
history_after_denial_logged(history, fallback) == Append(history, HistoryEntry(fallback))

history_after_denial(history, fallback) == history

\* analyze_stuck_scan up to the adapter's await: the budget check, the diagnostic
\* collection (which may raise) and the call of the adapter, which suspends.
AnalyzeCall(cost_ok, collect_ok) ==
    LET n      == Len(analysis_history)
        denied == ConsultsBudgetGate("analyze_stuck_scan")
                    /\ BudgetExceeded(get_total_cost, n)
    IN  /\ \/ ~cost_ok
           \/ denied
           \/ ~collect_ok
           \/ n + inflight < MaxHistory /\ inflight < MaxInflight
        /\ IF ~cost_ok
           THEN /\ last' = Observed("analyze_stuck_scan", "call", "none", FALSE, TRUE,
                             except_Exception("analyze_stuck_scan",
                                 [raised |-> TRUE, value |-> "cost read error"]))
                /\ UNCHANGED <<inflight, analysis_history, audit>>
           ELSE IF denied
           THEN /\ last' = Observed("analyze_stuck_scan", "call", "deny", FALSE, TRUE,
                             except_Exception("analyze_stuck_scan",
                                 [raised |-> FALSE,
                                  value |-> create_fallback_analysis("Cost budget exceeded")]))
                /\ analysis_history' = history_after_denial(analysis_history,
                                           create_fallback_analysis("Cost budget exceeded"))
                /\ audit' = [audit EXCEPT !.idle_denials =
                                 IF inflight = 0 /\ @ < MaxDenials THEN @ + 1 ELSE @]
                /\ UNCHANGED inflight
           ELSE IF ~collect_ok
           THEN /\ last' = Observed("analyze_stuck_scan", "call", "admit", FALSE, TRUE,
                             except_Exception("analyze_stuck_scan",
                                 [raised |-> TRUE, value |-> "collector error"]))
                /\ UNCHANGED <<inflight, analysis_history, audit>>
           ELSE /\ last' = Observed("analyze_stuck_scan", "call", "admit", TRUE, FALSE,
                             Pending)
                /\ inflight' = inflight + 1
                /\ UNCHANGED <<analysis_history, audit>>
        /\ UNCHANGED <<provider, settings, total_cost, total_tokens,
                       delegated, adapter_io, dg>>

\* analyze_stuck_scan from the adapter's answer on: the adapter builds the
\* analysis and advances its counters, the engine appends the history entry
\* and returns.  No await separates these.
AnalyzeReturn(resp) ==
    LET out == provider_analyze_stuck_scan(provider, resp)
    IN  /\ inflight > 0
        /\ total_cost' = AddToCounter(total_cost, out.dcost)
        /\ total_tokens' = AddToCounter(total_tokens, out.dtokens)
        /\ analysis_history' = Append(analysis_history, HistoryEntry(out.analysis))
        /\ inflight' = inflight - 1
        /\ last' = Observed("analyze_stuck_scan", "return", "admit", TRUE, TRUE,
                     except_Exception("analyze_stuck_scan",
                         [raised |-> FALSE, value |-> out.analysis]))
        /\ audit' = [audit EXCEPT !.returned = @ + 1, !.added = @ + out.dcost,
                                  !.late_returns =
                                      IF BudgetExceeded(total_cost, Len(analysis_history))
                                      THEN @ + 1 ELSE @]
        /\ UNCHANGED <<provider, settings, delegated, adapter_io, dg>>

\* triage_finding, generate_remediation, explain_timeout and
\* generate_architecture_overview: try: return await self.provider.<op>(...)
Delegate(op, resp) ==
    LET denied == ConsultsBudgetGate(op)
                    /\ BudgetExceeded(get_total_cost, Len(analysis_history))
        out    == provider_call(provider, op, resp)
    IN  /\ delegated < MaxDelegated
        /\ delegated' = delegated + 1
        /\ IF denied
           THEN /\ last' = Observed(op, "return", "deny", FALSE, TRUE,
                             [raised |-> FALSE,
                              value |-> OrchestratorFallback(op, "Cost budget exceeded")])
                /\ UNCHANGED <<total_cost, total_tokens, audit>>
           ELSE /\ total_cost' = AddToCounter(total_cost, out.dcost)
                /\ audit' = [audit EXCEPT !.other_added = @ + out.dcost]
                /\ total_tokens' = AddToCounter(total_tokens, out.dtokens)
                /\ last' = Observed(op, "return", "none", TRUE, TRUE,
                             except_Exception(op,
                                 [raised |-> out.raised, value |-> out.value]))
        /\ UNCHANGED <<provider, settings, analysis_history, inflight, adapter_io>>

TriageFinding(resp) == Delegate("triage_finding", resp) /\ UNCHANGED dg
GenerateRemediation(resp) == Delegate("generate_remediation", resp) /\ UNCHANGED dg
ExplainTimeout(resp) == Delegate("explain_timeout", resp) /\ UNCHANGED dg
GenerateArchitectureOverview(resp) ==
    Delegate("generate_architecture_overview", resp) /\ UNCHANGED dg

\* The responses the engine's runs are driven with: one of each way an
\* analyze_stuck_scan answer can go.
EngineResponses ==
    { r \in Responses :
        /\ r.suggestions = <<>>
        /\ \/ r.api = "error"
           \/ r.content = "unparseable" /\ r.usage = [prompt |-> 47, completion |-> 1]
           \/ r.content = "object" /\ r.severity = "high" /\ r.confidence = "0.9"
                /\ r.usage.prompt >= 47
           \/ r.content = "object" /\ r.severity = "urgent" /\ r.confidence = "0.9"
                /\ r.usage = [prompt |-> 60, completion |-> 2]
           \/ r.content = "object" /\ r.severity = "high" /\ r.confidence = "1.5"
                /\ r.usage = [prompt |-> 47, completion |-> 1] }

NoStep == Observed("none", "return", "none", FALSE, FALSE, Pending)

\* The settings an agent on provider p was built from: Settings of api/config.py,
\* the fields the agent and the router read
SettingsOf(p) ==
    [AI_PROVIDER |-> p.kind, AI_MODEL |-> p.model,
     OPENAI_API_KEY |-> "sk-openai", ANTHROPIC_API_KEY |-> "sk-anthropic"]

\* The tally before any call: completed adapter calls of analyze_stuck_scan,
\* the cost they added, the cost the other operations added, and the budget
\* denials made while no admitted call was in flight (counted up to MaxDenials),
\* and the adapter calls that completed in a state already over budget
NoAudit ==
    [returned |-> 0, added |-> 0, other_added |-> 0, idle_denials |-> 0, late_returns |-> 0]
NoAdapterCall == [called |-> FALSE]

\* No script has been run in this request
NoScriptRun == [status |-> "none", files |-> {}]

\* The router's architecture request: no request is being served, nothing saved
NoDiagram ==
    [pc |-> "idle", endpoint |-> "none", code |-> "none", image |-> "none",
     error |-> "none", repairs |-> 0, executions |-> 0,
     repair_code |-> "none", repair_error |-> "none",
     tmpdir |-> FALSE, proc |-> "none", script |-> NoScriptRun,
     saved |-> "none",
     response |-> [status |-> 0, report |-> "none", diagram |-> "none", image |-> "none"]]

Init ==
    /\ provider \in Providers
    /\ total_cost = 0
    /\ total_tokens = 0
    /\ analysis_history = <<>>
    /\ inflight = 0
    /\ delegated = 0
    /\ last = NoStep
    /\ adapter_io = NoAdapterCall
    /\ dg = NoDiagram
    /\ settings = SettingsOf(provider)
    /\ audit = NoAudit

Next ==
    \/ \E collect_ok \in BOOLEAN : AnalyzeCall(TRUE, collect_ok)
    \/ \E resp \in EngineResponses : AnalyzeReturn(resp)
    \/ \E resp \in OtherResponses : TriageFinding(resp)
    \/ \E resp \in OtherResponses : GenerateRemediation(resp)
    \/ \E resp \in OtherResponses : ExplainTimeout(resp)
    \/ \E resp \in OtherResponses : GenerateArchitectureOverview(resp)

Spec == Init /\ [][Next]_vars

\* Runs of analyze_stuck_scan alone on a fresh engine and provider
NextAnalyze ==
    \/ \E collect_ok \in BOOLEAN : AnalyzeCall(TRUE, collect_ok)
    \/ \E resp \in EngineResponses : AnalyzeReturn(resp)

SpecAnalyze == Init /\ [][NextAnalyze]_vars

\* The engine on a provider whose get_total_cost can raise as well
NextFaults ==
    \/ \E cost_ok \in BOOLEAN, collect_ok \in BOOLEAN : AnalyzeCall(cost_ok, collect_ok)
    \/ \E resp \in EngineResponses : AnalyzeReturn(resp)
    \/ \E resp \in OtherResponses : TriageFinding(resp)

SpecFaults == Init /\ [][NextFaults]_vars

----------------------------------------------------------------------------
(* The architecture endpoints of the router (api/routers/ai.py):            *)
(* generate_architecture (POST) and update_architecture (PUT), each with    *)
(* the execution of the diagram script and the auto-fix.                    *)
(*   dg.pc          "idle" | "executing" | "running" | "repairing" |        *)
(*                  "respond"                                               *)
(*   dg.code        the diagram source in hand: "none" | "original" |       *)
(*                  "repaired"                                              *)
(*   dg.repairs     calls of fix_and_enhance_diagram_code in this request   *)
(*   dg.executions  calls of execute_diagram_code in this request           *)
(*   dg.error       the latest exception of this request, as text           *)
(*   dg.tmpdir      the temporary directory of execute_diagram_code exists   *)
(*   dg.script      how the last script run of this request ended            *)
(*   dg.proc        the script's process: "none" | "running" | "exited" |    *)
(*                  "killed"                                                *)
(*   dg.saved       project.architecture_diagram                            *)
(*   dg.response    the ArchitectureResponse sent (status 200), or the       *)
(*                  HTTPException's status                                  *)

\* How one run of the diagram script ends
PngNames == {"architecture_diagram.png", "other.png"}

\* How the script's process can end, and the PNG files the working directory
\* holds by then (a script can write its image and still fail or hang)
ExecOutcomes == [status : {"exit 0", "nonzero exit", "timeout"}, files : SUBSET PngNames]

\* execute_diagram_code with the exit status left unchecked
execute_diagram_code_unchecked(outcome) ==
    IF outcome.status = "timeout"
    THEN [ok |-> FALSE, image |-> "none", error |-> "TimeoutExpired"]
    ELSE IF "architecture_diagram.png" \in outcome.files
    THEN [ok |-> TRUE, image |-> "architecture_diagram.png", error |-> "none"]
    ELSE IF outcome.files # {}
    THEN [ok |-> TRUE, image |-> CHOOSE f \in outcome.files : TRUE, error |-> "none"]
    ELSE [ok |-> FALSE, image |-> "none", error |-> "No PNG image generated by the script"]

\* execute_diagram_code from the process's end on: the image returned, or the
\* exception raised
execute_diagram_code(outcome) ==
    IF outcome.status = "nonzero exit"
    THEN [ok |-> FALSE, image |-> "none", error |-> "Script execution failed: output"]
    ELSE IF outcome.status = "timeout"
    THEN [ok |-> FALSE, image |-> "none", error |-> "TimeoutExpired"]
    ELSE IF "architecture_diagram.png" \in outcome.files
    THEN [ok |-> TRUE, image |-> "architecture_diagram.png", error |-> "none"]
    ELSE IF outcome.files # {}
    THEN [ok |-> TRUE, image |-> CHOOSE f \in outcome.files : TRUE, error |-> "none"]
    ELSE [ok |-> FALSE, image |-> "none", error |-> "No PNG image generated by the script"]

\* subprocess.check_output(..., timeout=30): the child has exited when it
\* returns or raises CalledProcessError, and is killed and waited for before
\* TimeoutExpired is raised
process_after(outcome) == IF outcome.status = "timeout" THEN "killed" ELSE "exited"

\* Leaving "with tempfile.TemporaryDirectory() as tmpdir": whether the
\* directory still exists, by whether the block was left by an exception
tmpdir_after_with_leak(raised) == raised

tmpdir_after_with(raised) == FALSE

\* What the repair call gives back: the text of the model's answer, fenced or
\* not, or an exception (execute_prompt re-raises).
RepairOutcomes ==
    { [raised |-> FALSE, fenced |-> TRUE,  body |-> "repaired"],
      [raised |-> FALSE, fenced |-> FALSE, body |-> "repaired"],
      [raised |-> TRUE,  fenced |-> FALSE, body |-> "none"] }

\* "Clean up code block if present": the body of the ```python block, else the
\* text with the fence markers removed
StripFences(text) == text.body

\* Where an exception of execute_diagram_code leads: the first execution sits in
\* the try whose except-branch runs the auto-fix, the second in the try whose
\* except-branch only logs.
OnExecutionFailure_retry(executions_before) == "repairing"

OnExecutionFailure(executions_before) ==
    IF executions_before = 0 THEN "repairing" ELSE "respond"

\* The arguments of provider.fix_and_enhance_diagram_code(diagram_code, str(e), ...)
RepairArguments_generic(d) == [code |-> d.code, error |-> "diagram generation failed"]

RepairArguments(d) == [code |-> d.code, error |-> d.error]

\* diagram_code = fixed_code (project.architecture_diagram = fixed_code in
\* update_architecture): the source in hand after the auto-fix returned
diagram_code_after_fix_keep(original, fixed_code) == original

diagram_code_after_fix(original, fixed_code) == fixed_code

NewRequest(endpoint, code, pc) ==
    [dg EXCEPT !.pc = pc, !.endpoint = endpoint, !.code = code, !.image = "none",
               !.error = "none", !.repairs = 0, !.executions = 0,
               !.repair_code = "none", !.repair_error = "none",
               !.tmpdir = FALSE, !.proc = "none", !.script = NoScriptRun]

Failed(status) ==
    [dg EXCEPT !.pc = "idle",
               !.response = [status |-> status, report |-> "none", diagram |-> "none",
                             image |-> "none"]]

\* POST /ai/architecture up to the first execution: the project lookup, the
\* clone, the overview asked of the agent, and the search for a ```python block.
GenerateArchitectureStart(pre, resp, has_code) ==
    /\ dg.pc = "idle"
    /\ IF pre # "ok"
       THEN /\ dg' = Failed(IF pre = "not found" THEN 404 ELSE 500)
            /\ UNCHANGED <<provider, settings, audit, total_cost, total_tokens, analysis_history,
                           inflight, delegated, last, adapter_io>>
       ELSE /\ Delegate("generate_architecture_overview", resp)
            /\ dg' = IF last'.result = "model" /\ has_code
                     THEN NewRequest("generate", "original", "executing")
                     ELSE NewRequest("generate", "none", "respond")

\* PUT /ai/architecture/{project_id} up to the first execution
UpdateArchitectureStart(found, diagram_given) ==
    /\ dg.pc = "idle"
    /\ dg' = IF ~found THEN Failed(404)
             ELSE IF diagram_given
             THEN [NewRequest("update", "original", "executing") EXCEPT !.saved = "original"]
             ELSE NewRequest("update", "none", "respond")
    /\ UNCHANGED <<provider, settings, audit, total_cost, total_tokens, analysis_history, inflight,
                   delegated, last, adapter_io>>

\* The end of one call of execute_diagram_code, seen from its caller
AfterExecution(d, run, proc) ==
    IF run.ok
    THEN [d EXCEPT !.executions = @ + 1, !.image = run.image, !.pc = "respond",
                   !.proc = proc, !.tmpdir = tmpdir_after_with(FALSE)]
    ELSE [d EXCEPT !.executions = @ + 1, !.error = run.error,
                   !.pc = OnExecutionFailure(d.executions),
                   !.proc = proc, !.tmpdir = tmpdir_after_with(TRUE)]

\* execute_diagram_code up to the start of the script's process: the temporary
\* directory is made and the script written into it (which may raise), then
\* the process runs
ExecuteDiagramEnter(write_ok) ==
    /\ dg.pc = "executing"
    /\ dg' = IF write_ok
             THEN [dg EXCEPT !.pc = "running", !.tmpdir = TRUE, !.proc = "running"]
             ELSE AfterExecution(dg, [ok |-> FALSE, image |-> "none", error |-> "OSError"],
                                 "none")
    /\ UNCHANGED <<provider, settings, audit, total_cost, total_tokens, analysis_history, inflight,
                   delegated, last, adapter_io>>

\* execute_diagram_code from the end of the script's process on
ExecuteDiagram(outcome) ==
    /\ dg.pc = "running"
    /\ dg' = [AfterExecution(dg, execute_diagram_code(outcome), process_after(outcome))
                EXCEPT !.script = outcome]
    /\ UNCHANGED <<provider, settings, audit, total_cost, total_tokens, analysis_history, inflight,
                   delegated, last, adapter_io>>

\* provider = OpenAIProvider(api_key=settings.OPENAI_API_KEY, model=settings.AI_MODEL)
\* inside a request handler: a provider of its own, with counters at zero
RequestProvider == [kind |-> "openai", model |-> settings.AI_MODEL]

\* One use of such a provider.  called: the provider was built and its
\* execute_prompt awaited, with the credential api_key; total_cost: that
\* provider's counter afterwards (execute_prompt adds the cost of an answer and
\* re-raises an API error before it); status: the handler's HTTP status, 0
\* for the auto-fix, which is part of a larger request.
RequestCall(endpoint, called, raised) ==
    [called |-> called, endpoint |-> endpoint,
     api_key |-> IF called THEN settings.OPENAI_API_KEY ELSE "none",
     total_cost |-> IF called /\ ~raised THEN estimate_cost(RequestProvider, 1, 1) ELSE 0,
     status |-> IF endpoint = "auto-fix" THEN 0
                ELSE IF ~called THEN 400 ELSE IF raised THEN 500 ELSE 200]

\* The agent's cumulative cost after a request used a provider of its own:
\* the cost went to the counter of that provider, which the handler drops
agent_total_cost_after_request_shared(agent_cost, request_cost) == agent_cost + request_cost

agent_total_cost_after_request(agent_cost, request_cost) == agent_cost

\* The auto-fix: fix_and_enhance_diagram_code on an OpenAIProvider built for this
\* request, then the fence stripping; update_architecture stores the fixed
\* source in the project at once.
RepairDiagram(answer) ==
    LET args  == RepairArguments(dg)
        fixed == diagram_code_after_fix(dg.code, StripFences(answer))
    IN  /\ dg.pc = "repairing"
        /\ dg' = IF answer.raised
                 THEN [dg EXCEPT !.repairs = @ + 1, !.repair_code = args.code,
                                 !.repair_error = args.error,
                                 !.error = "fix_and_enhance_diagram_code failed",
                                 !.pc = "respond"]
                 ELSE [dg EXCEPT !.repairs = @ + 1, !.repair_code = args.code,
                                 !.repair_error = args.error,
                                 !.code = fixed,
                                 !.saved = IF dg.endpoint = "update" THEN fixed ELSE @,
                                 !.pc = "executing"]
        /\ adapter_io' = RequestCall("auto-fix", TRUE, answer.raised)
        /\ total_cost' = agent_total_cost_after_request(total_cost, adapter_io'.total_cost)
        /\ UNCHANGED <<provider, settings, audit, total_tokens, analysis_history, inflight,
                       delegated, last>>

\* POST /ai/architecture/validate: 400 without a prompt, else execute_prompt on
\* a provider built for the request; 500 when that raises
ValidatePrompt(prompt_given, raised) ==
    /\ adapter_io' = RequestCall("validate", prompt_given, raised)
    /\ total_cost' = IF prompt_given
                     THEN agent_total_cost_after_request(total_cost, adapter_io'.total_cost)
                     ELSE total_cost
    /\ UNCHANGED <<provider, settings, audit, total_tokens, analysis_history, inflight,
                   delegated, last, dg>>

\* POST /ai/architecture/refine: 400 without code, else
\* fix_and_enhance_diagram_code on a provider built for the request
RefineDiagram(code_given, raised) ==
    /\ adapter_io' = RequestCall("refine", code_given, raised)
    /\ total_cost' = IF code_given
                     THEN agent_total_cost_after_request(total_cost, adapter_io'.total_cost)
                     ELSE total_cost
    /\ UNCHANGED <<provider, settings, audit, total_tokens, analysis_history, inflight,
                   delegated, last, dg>>

\* The end of either request: save and answer with an ArchitectureResponse
RespondArchitecture ==
    /\ dg.pc = "respond"
    /\ dg' = IF dg.endpoint = "generate"
             THEN [dg EXCEPT !.pc = "idle", !.saved = dg.code,
                             !.response = [status |-> 200, report |-> "overview",
                                           diagram |-> dg.code, image |-> dg.image]]
             ELSE [dg EXCEPT !.pc = "idle",
                             !.response = [status |-> 200, report |-> "request.report",
                                           diagram |-> dg.saved, image |-> dg.image]]
    /\ UNCHANGED <<provider, settings, audit, total_cost, total_tokens, analysis_history, inflight,
                   delegated, last, adapter_io>>

NextDiagram ==
    \/ \E pre \in {"ok", "not found", "clone failed"}, resp \in OtherResponses,
          has_code \in BOOLEAN : GenerateArchitectureStart(pre, resp, has_code)
    \/ \E found \in BOOLEAN, diagram_given \in BOOLEAN :
          UpdateArchitectureStart(found, diagram_given)
    \/ \E write_ok \in BOOLEAN : ExecuteDiagramEnter(write_ok)
    \/ \E outcome \in ExecOutcomes : ExecuteDiagram(outcome)
    \/ \E answer \in RepairOutcomes : RepairDiagram(answer)
    \/ RespondArchitecture
    \/ \E prompt_given \in BOOLEAN, raised \in BOOLEAN : ValidatePrompt(prompt_given, raised)
    \/ \E code_given \in BOOLEAN, raised \in BOOLEAN : RefineDiagram(code_given, raised)

\* AIAgent.__init__ builds an OpenAI or a Claude provider, nothing else
InitDiagram == Init /\ provider.kind \in {"openai", "claude"}

SpecDiagram == InitDiagram /\ [][NextDiagram]_vars

----------------------------------------------------------------------------
(* The router module from its import on: the agent is built once from the    *)
(* settings, and the endpoints are served with whatever came of that        *)

RouterSettings ==
    [AI_PROVIDER : {"openai", "claude", "ollama"},
     AI_MODEL : {"gpt-4o", "claude-3-opus-20240229"},
     OPENAI_API_KEY : {"", "sk-openai"},
     ANTHROPIC_API_KEY : {"", "sk-anthropic"}]

\* AIAgent.__init__: the provider it builds, or the ValueError it raises
AIAgent(s) ==
    CASE s.AI_PROVIDER = "openai" ->
            IF s.OPENAI_API_KEY = "" THEN [raised |-> TRUE, kind |-> "none", model |-> "none"]
            ELSE [raised |-> FALSE, kind |-> "openai", model |-> s.AI_MODEL]
      [] s.AI_PROVIDER = "claude" ->
            IF s.ANTHROPIC_API_KEY = "" THEN [raised |-> TRUE, kind |-> "none", model |-> "none"]
            ELSE [raised |-> FALSE, kind |-> "claude", model |-> s.AI_MODEL]
      [] OTHER -> [raised |-> TRUE, kind |-> "none", model |-> "none"]

\* ai_agent = None
NoAgent == [kind |-> "none", model |-> "none"]

\* try: ai_agent = AIAgent(...) except Exception: ai_agent = None
ai_agent(s) == IF AIAgent(s).raised THEN NoAgent
               ELSE [kind |-> AIAgent(s).kind, model |-> AIAgent(s).model]

InitRouter ==
    /\ settings \in RouterSettings
    /\ provider = ai_agent(settings)
    /\ total_cost = 0
    /\ total_tokens = 0
    /\ analysis_history = <<>>
    /\ inflight = 0
    /\ delegated = 0
    /\ last = NoStep
    /\ adapter_io = NoAdapterCall
    /\ dg = NoDiagram
    /\ audit = NoAudit

\* POST /ai/triage and POST /ai/remediate: 503 without an agent, else the
\* agent's operation, whose result the response is built from
RouterAgentCall(op, resp) ==
    IF provider = NoAgent
    THEN /\ last' = Observed(op, "return", "none", FALSE, TRUE,
                       [raised |-> TRUE, value |-> "503 AI Agent not initialized"])
         /\ UNCHANGED <<provider, settings, audit, total_cost, total_tokens,
                        analysis_history, inflight, delegated, adapter_io, dg>>
    ELSE Delegate(op, resp) /\ UNCHANGED dg

RouterTriage(resp) == RouterAgentCall("triage_finding", resp)
RouterRemediate(resp) == RouterAgentCall("generate_remediation", resp)

NextRouter ==
    \/ \E resp \in OtherResponses : RouterTriage(resp)
    \/ \E resp \in OtherResponses : RouterRemediate(resp)
    \/ \E prompt_given \in BOOLEAN, raised \in BOOLEAN : ValidatePrompt(prompt_given, raised)
    \/ \E code_given \in BOOLEAN, raised \in BOOLEAN : RefineDiagram(code_given, raised)

SpecRouter == InitRouter /\ [][NextRouter]_vars

----------------------------------------------------------------------------
(* An adapter's analyze_stuck_scan called on its own, once, over the whole   *)
(* bounded response space, on a provider that is fresh or has served one     *)
(* earlier call.                                                            *)

InitAdapter ==
    /\ provider \in Providers
    /\ \E served \in BOOLEAN :
          /\ total_cost = IF served THEN estimate_cost(provider, 1, 1) ELSE 0
          /\ total_tokens = IF served THEN 2 ELSE 0
    /\ analysis_history = <<>>
    /\ inflight = 0
    /\ delegated = 0
    /\ last = NoStep
    /\ adapter_io = NoAdapterCall
    /\ dg = NoDiagram
    /\ settings = SettingsOf(provider)
    /\ audit = NoAudit

AdapterAnalyze(resp) ==
    LET out == provider_analyze_stuck_scan(provider, resp)
    IN  /\ ~adapter_io.called
        /\ total_cost' = total_cost + out.dcost
        /\ total_tokens' = total_tokens + out.dtokens
        /\ adapter_io' = [called |-> TRUE, response |-> resp, analysis |-> out.analysis]
        /\ UNCHANGED <<provider, settings, audit, analysis_history, inflight, delegated, last, dg>>

NextAdapter == \E resp \in Responses : AdapterAnalyze(resp)

SpecAdapter == InitAdapter /\ [][NextAdapter]_vars

----------------------------------------------------------------------------
(* Claims about the budget gate and the orchestrator                        *)

\* C1: from every state with a history of N >= 1 entries and cumulative cost C
\* with C/N above max_cost_per_analysis, a call of analyze_stuck_scan is denied:
\* the adapter is not invoked, the analysis returned has confidence 0,
\* estimated_cost 0, tokens_used 0 and a root cause naming the budget, and C,
\* N and the token counter are as before.
C1_OverBudgetCallIsDenied ==
    [][ ( /\ Len(analysis_history) >= 1
          /\ total_cost > max_cost_per_analysis * Len(analysis_history)
          /\ last'.op = "analyze_stuck_scan"
          /\ last'.phase = "call" )
        => /\ last'.gate = "deny"
           /\ ~last'.invoked
           /\ last'.returned
           /\ ~last'.raised
           /\ last'.result.confidence = 0
           /\ last'.result.estimated_cost = 0
           /\ last'.result.tokens_used = 0
           /\ last'.result.root_cause = "AI analysis unavailable: Cost budget exceeded"
           /\ total_cost' = total_cost
           /\ total_tokens' = total_tokens
           /\ analysis_history' = analysis_history
           /\ inflight' = inflight ]_vars

\* A call was just denied with a non-empty history whose average is above the ceiling.
C1_Witness ==
    /\ last.op = "analyze_stuck_scan"
    /\ last.phase = "call"
    /\ last.gate = "deny"
    /\ Len(analysis_history) >= 2
    /\ total_cost > max_cost_per_analysis * Len(analysis_history)

\* C2: the budget check of analyze_stuck_scan admits the call exactly when, with
\* an empty history, the cumulative cost is at most the ceiling and, with a
\* non-empty history, the cumulative cost divided by the history length is at
\* most the ceiling.
C2_AdmissionDecision ==
    [][ ( last'.op = "analyze_stuck_scan" /\ last'.phase = "call" )
        => ( last'.gate \in {"admit", "deny"}
             /\ ( last'.gate = "admit"
                  <=> IF Len(analysis_history) = 0
                      THEN total_cost <= max_cost_per_analysis
                      ELSE total_cost <= max_cost_per_analysis * Len(analysis_history) ) ) ]_vars

\* A call was just admitted with a non-empty history whose average equals the ceiling.
C2_Witness ==
    /\ last.op = "analyze_stuck_scan"
    /\ last.phase = "call"
    /\ last.gate = "admit"
    /\ last.invoked
    /\ Len(analysis_history) >= 1
    /\ total_cost = max_cost_per_analysis * Len(analysis_history)

\* C3 (as claimed): the return of an admitted analyze_stuck_scan call appends
\* one history entry and adds the returned analysis's estimated_cost to the
\* cumulative cost; no other step changes the history.
C3_ReturnAccountsReportedCost ==
    [][ IF inflight' = inflight - 1
        THEN /\ Len(analysis_history') = Len(analysis_history) + 1
             /\ total_cost' = total_cost + last'.result.estimated_cost
        ELSE analysis_history' = analysis_history ]_vars

RECURSIVE SumEstimatedCost(_)
SumEstimatedCost(history) ==
    IF history = <<>> THEN 0
    ELSE Head(history).analysis.estimated_cost + SumEstimatedCost(Tail(history))

\* C6 (as claimed): after any sequence of analyze_stuck_scan calls the cumulative
\* cost the budget check reads is the sum of the estimated_cost of the analyses
\* in the history.
C6_CostIsSumOfHistory ==
    total_cost = SumEstimatedCost(analysis_history)

C7_DelegatesBypassBudgetGate ==
    last.op \in {"triage_finding", "generate_remediation",
                 "generate_architecture_overview"}
    => last.invoked /\ last.gate = "none"

\* triage_finding reached the adapter in a state in which analyze_stuck_scan is
\* denied (the Claude adapter's triage leaves the counters alone, so the state
\* before the call was over budget too).
C7_Witness ==
    /\ last.op = "triage_finding"
    /\ last.invoked
    /\ provider.kind = "claude"
    /\ BudgetExceeded(total_cost, Len(analysis_history))

----------------------------------------------------------------------------
(* Claims about the adapters' analyze_stuck_scan                            *)

\* C8 (as claimed): every analysis analyze_stuck_scan returns has a confidence
\* within [0, 1] and non-negative estimated_cost and tokens_used.
C8_AnalysisFieldsInRange ==
    ( last.op = "analyze_stuck_scan" /\ last.returned )
    => /\ last.result.confidence >= 0
       /\ last.result.confidence <= 100
       /\ last.result.estimated_cost >= 0
       /\ last.result.tokens_used >= 0

\* The entries the claim calls invalid: not a mapping, action missing or
\* unknown, confidence not a number.
InvalidSuggestion(sug) ==
    \/ ~sug.mapping
    \/ sug.action = "absent"
    \/ sug.action \notin RemediationActionValues
    \/ sug.confidence \in {"abc", "null"}

\* The valid entries of a suggestion list, in their order, as suggestions
ValidSuggestions(sugs) ==
    LET kept == SelectSeq(sugs, LAMBDA sug : ~InvalidSuggestion(sug))
    IN  [i \in 1..Len(kept) |->
            RemediationSuggestion(kept[i].action,
                                  Float(Get(kept[i].confidence, "0.5")).v)]

\* C9 (as claimed): for a response that is a JSON object with a usable severity
\* and confidence, every adapter returns an analysis, not the failure fallback,
\* whose suggestions are exactly the valid entries of the response's list in
\* their order.
C9_InvalidSuggestionsDroppedOneByOne ==
    ( /\ adapter_io.called
      /\ adapter_io.response.api = "ok"
      /\ adapter_io.response.content = "object"
      /\ adapter_io.response.severity \in SeverityValues \cup {"absent"}
      /\ adapter_io.response.confidence \in {"absent", "0.9", "1.5"} )
    => /\ adapter_io.analysis # FailedAnalysis
       /\ adapter_io.analysis.remediation_suggestions
            = ValidSuggestions(adapter_io.response.suggestions)

\* C10 (as claimed): a call of an adapter's analyze_stuck_scan that returns the
\* failure fallback leaves the cumulative cost and token counters as they were.
C10_FallbackLeavesCountersAlone ==
    [][ ( ~adapter_io.called /\ adapter_io'.called
          /\ adapter_io'.analysis = FailedAnalysis )
        => ( total_cost' = total_cost /\ total_tokens' = total_tokens ) ]_vars

----------------------------------------------------------------------------
(* Claims about the generate -> execute -> repair loop                      *)

\* C5: within one generate-architecture or update-architecture request the
\* repair call is made at most once and the diagram script is executed at most
\* twice; the repair runs only after the first execution, and once the second
\* execution has run the request only answers.
C5_OneRepairTwoExecutions ==
    /\ dg.repairs <= 1
    /\ dg.executions <= 2
    /\ dg.pc = "repairing" => ( dg.repairs = 0 /\ dg.executions = 1 )
    /\ dg.pc = "executing" => ( dg.executions = dg.repairs )
    /\ dg.executions = 2 => dg.pc \in {"respond", "idle"}

\* A request has ended after its first execution failed, the repair returned
\* and the execution of the repaired script failed too.
C5_Witness ==
    /\ dg.pc = "idle"
    /\ dg.response.status = 200
    /\ dg.repairs = 1
    /\ dg.executions = 2
    /\ dg.image = "none"
    /\ dg.code = "repaired"

----------------------------------------------------------------------------
(* The adapters' operations called on their own: the request the OpenAI     *)
(* adapter builds for each of them, and the mapping triage_finding returns. *)

\* The model ids an OpenAI adapter is built with here
OpenAIModels == {"gpt-4-turbo", "gpt-4o", "gpt-5", "o1-preview", "O3-mini", "GPT-5"}

\* The characters of a model id
ModelChars(m) ==
    CASE m = "gpt-4-turbo" -> <<"g", "p", "t", "-", "4", "-", "t", "u", "r", "b", "o">>
      [] m = "gpt-4o"      -> <<"g", "p", "t", "-", "4", "o">>
      [] m = "gpt-5"       -> <<"g", "p", "t", "-", "5">>
      [] m = "o1-preview"  -> <<"o", "1", "-", "p", "r", "e", "v", "i", "e", "w">>
      [] m = "O3-mini"     -> <<"O", "3", "-", "m", "i", "n", "i">>
      [] m = "GPT-5"       -> <<"G", "P", "T", "-", "5">>

UpperLetters == <<"A", "B", "C", "D", "E", "F", "G", "H", "I", "J", "K", "L", "M", "N", "O", "P", "Q", "R", "S", "T", "U", "V", "W", "X", "Y", "Z">>
LowerLetters == <<"a", "b", "c", "d", "e", "f", "g", "h", "i", "j", "k", "l", "m", "n", "o", "p", "q", "r", "s", "t", "u", "v", "w", "x", "y", "z">>

\* str.lower()
Lower(chars) ==
    [i \in 1..Len(chars) |->
        IF \E k \in 1..Len(UpperLetters) : UpperLetters[k] = chars[i]
        THEN LowerLetters[CHOOSE k \in 1..Len(UpperLetters) : UpperLetters[k] = chars[i]]
        ELSE chars[i]]

\* sub in text
Contains(text, sub) ==
    \E i \in 1..(Len(text) - Len(sub) + 1) : SubSeq(text, i, i + Len(sub) - 1) = sub

\* "gpt-5" in self.model.lower() or "o1" in self.model.lower() or "o3" in self.model.lower()
is_reasoning_model(m) ==
    LET lowered == Lower(ModelChars(m))
    IN  \/ Contains(lowered, <<"g", "p", "t", "-", "5">>)
        \/ Contains(lowered, <<"o", "1">>)
        \/ Contains(lowered, <<"o", "3">>)

OpenAIOps ==
    {"analyze_stuck_scan", "triage_finding", "explain_timeout", "generate_remediation",
     "execute_prompt"}

\* api_params of the operations that build one request shape per model family
\* (triage_finding, generate_remediation, execute_prompt):
\*   roles  the role of each entry of "messages", in order
\*   system_merged  the system instruction is part of the user message
\*   temperature, max_tokens, max_completion_tokens  the key is present
SplitRequest(reasoning) ==
    IF reasoning
    THEN [roles |-> <<"user">>, system_merged |-> TRUE, temperature |-> FALSE,
          max_tokens |-> FALSE, max_completion_tokens |-> TRUE]
    ELSE [roles |-> <<"system", "user">>, system_merged |-> FALSE, temperature |-> TRUE,
          max_tokens |-> TRUE, max_completion_tokens |-> FALSE]

\* api_params of OpenAIProvider.analyze_stuck_scan: one messages list for every
\* model, then the token limit and the temperature by model family
analyze_stuck_scan_request(reasoning) ==
    [roles |-> <<"system", "user">>, system_merged |-> FALSE,
     temperature |-> ~reasoning, max_tokens |-> ~reasoning,
     max_completion_tokens |-> reasoning]

\* api_params of OpenAIProvider.explain_timeout: messages and "temperature": 0.5
\* for every model, then the token limit by model family
explain_timeout_request(reasoning) ==
    [roles |-> <<"system", "user">>, system_merged |-> FALSE,
     temperature |-> TRUE, max_tokens |-> ~reasoning,
     max_completion_tokens |-> reasoning]

openai_request(model, op) ==
    CASE op = "analyze_stuck_scan" -> analyze_stuck_scan_request(is_reasoning_model(model))
      [] op = "explain_timeout"    -> explain_timeout_request(is_reasoning_model(model))
      [] OTHER                     -> SplitRequest(is_reasoning_model(model))

\* Claude and Ollama requests are not modelled field by field
NoRequest ==
    [roles |-> <<>>, system_merged |-> FALSE, temperature |-> FALSE,
     max_tokens |-> FALSE, max_completion_tokens |-> FALSE]

\* The four fields of a triage result
TriageFields == {"priority", "confidence", "false_positive_probability", "reasoning"}

\* A response to triage_finding: the call raised, or returned content that is
\* JSON text ("json"), JSON text inside a ```json fence ("fenced json") or
\* prose ("text"); keys are the keys of the JSON object the model wrote.
TriageResponses ==
    {[api |-> "error", content |-> "text", keys |-> {}]}
    \cup [api : {"ok"}, content : {"json", "fenced json", "text"},
          keys : {TriageFields, TriageFields \ {"false_positive_probability"}}]

\* Whether json.loads succeeds on what the adapter hands to it: OpenAI cleans the
\* content with _clean_json_response, Claude cuts the fenced part out, Ollama
\* parses the content as it is.
triage_parses(kind, content) ==
    \/ content = "json"
    \/ content = "fenced json" /\ kind \in {"openai", "claude"}

\* The keys of the mapping each adapter's except-branch returns
triage_fallback_keys(kind) ==
    CASE kind = "openai" -> {"priority", "confidence", "reasoning", "false_positive_probability"}
      [] kind = "claude" -> {"priority"}
      [] kind = "ollama" -> {"priority", "confidence", "reasoning"}

\* triage_finding of each adapter: the keys of the mapping returned and where it
\* came from
triage_finding(kind, resp) ==
    IF resp.api = "ok" /\ resp.content # "text" /\ triage_parses(kind, resp.content)
    THEN [keys |-> resp.keys, source |-> "model"]
    ELSE [keys |-> triage_fallback_keys(kind), source |-> "adapter fallback"]

OpsProviders ==
    [kind : {"openai"}, model : OpenAIModels]
    \cup {p \in Providers : p.kind # "openai"}

\* The adapter is fresh or has served one earlier call
InitOps ==
    /\ provider \in OpsProviders
    /\ \E served \in BOOLEAN :
          /\ total_cost = IF served THEN estimate_cost(provider, 1, 1) ELSE 0
          /\ total_tokens = IF served THEN 2 ELSE 0
    /\ analysis_history = <<>>
    /\ inflight = 0
    /\ delegated = 0
    /\ last = NoStep
    /\ adapter_io = NoAdapterCall
    /\ dg = NoDiagram
    /\ settings = SettingsOf(provider)
    /\ audit = NoAudit

\* One call of triage_finding on the adapter
AdapterTriage(resp) ==
    LET tracked == resp.api = "ok" /\ TracksCost(provider.kind, "triage_finding")
    IN  /\ ~adapter_io.called
        /\ adapter_io' = [called |-> TRUE, op |-> "triage_finding",
                          request |-> IF provider.kind = "openai"
                                      THEN openai_request(provider.model, "triage_finding")
                                      ELSE NoRequest,
                          result |-> triage_finding(provider.kind, resp)]
        /\ total_cost' = total_cost + (IF tracked THEN estimate_cost(provider, 1, 1) ELSE 0)
        /\ total_tokens' = total_tokens + (IF tracked THEN 2 ELSE 0)
        /\ UNCHANGED <<provider, settings, audit, analysis_history, inflight, delegated, last, dg>>

\* One call of another operation of the OpenAI adapter: the request it builds
\* and where its value comes from (execute_prompt re-raises)
AdapterOpenAICall(op, resp) ==
    LET out == provider_call(provider, op, resp)
    IN  /\ ~adapter_io.called
        /\ provider.kind = "openai"
        /\ adapter_io' = [called |-> TRUE, op |-> op,
                          request |-> openai_request(provider.model, op),
                          result |-> [keys |-> {},
                                      source |-> IF op = "execute_prompt" /\ resp.api = "error"
                                                 THEN "raised" ELSE out.value]]
        /\ total_cost' = total_cost + out.dcost
        /\ total_tokens' = total_tokens + out.dtokens
        /\ UNCHANGED <<provider, settings, audit, analysis_history, inflight, delegated, last, dg>>

\* One call of analyze_stuck_scan on the OpenAI adapter, with its request
AdapterOpenAIAnalyze(resp) ==
    LET out == openai_analyze_stuck_scan(provider, resp)
    IN  /\ ~adapter_io.called
        /\ provider.kind = "openai"
        /\ adapter_io' = [called |-> TRUE, op |-> "analyze_stuck_scan",
                          request |-> openai_request(provider.model, "analyze_stuck_scan"),
                          result |-> [keys |-> {},
                                      source |-> IF out.analysis = FailedAnalysis
                                                 THEN "adapter fallback" ELSE "model"]]
        /\ total_cost' = total_cost + out.dcost
        /\ total_tokens' = total_tokens + out.dtokens
        /\ UNCHANGED <<provider, settings, audit, analysis_history, inflight, delegated, last, dg>>

NextOps ==
    \/ \E resp \in TriageResponses : AdapterTriage(resp)
    \/ \E resp \in EngineResponses : AdapterOpenAIAnalyze(resp)
    \/ \E op \in OpenAIOps \ {"triage_finding", "analyze_stuck_scan"},
          resp \in OtherResponses : AdapterOpenAICall(op, resp)

SpecOps == InitOps /\ [][NextOps]_vars

\* C11 (as claimed): the mapping triage_finding returns has the four fields
\* priority, confidence, false_positive_probability and reasoning, for every
\* adapter and every outcome of the call.
C11_TriageResultHasFourFields ==
    ( adapter_io.called /\ adapter_io.op = "triage_finding" )
    => TriageFields \subseteq adapter_io.result.keys

\* C12 (as claimed): a request of the OpenAI adapter for a model id with a
\* reasoning-family marker has no temperature, has max_completion_tokens and no
\* max_tokens; for any other model id it has max_tokens and no
\* max_completion_tokens.
C12_RequestShapeFollowsModelFamily ==
    ( adapter_io.called /\ provider.kind = "openai" )
    => IF is_reasoning_model(provider.model)
       THEN /\ ~adapter_io.request.temperature
            /\ adapter_io.request.max_completion_tokens
            /\ ~adapter_io.request.max_tokens
       ELSE /\ adapter_io.request.max_tokens
            /\ ~adapter_io.request.max_completion_tokens

\* C13 (as claimed): a request of the OpenAI adapter for a model id with a
\* reasoning-family marker has no system-role message and carries the system
\* instruction in its single user message; for any other model id it has a
\* separate system-role message.
C13_SystemRoleFollowsModelFamily ==
    ( adapter_io.called /\ provider.kind = "openai" )
    => IF is_reasoning_model(provider.model)
       THEN /\ adapter_io.request.roles = <<"user">>
            /\ adapter_io.request.system_merged
       ELSE adapter_io.request.roles = <<"system", "user">>

----------------------------------------------------------------------------
(* OpenAIProvider._clean_json_response, on texts as sequences of           *)
(* characters.  "BT" is the backtick, "LF" the line break, "SP" the blank.  *)

\* most pieces a raw model text is put together from
MaxPieces == 5

Fence == <<"BT", "BT", "BT">>
Whitespace == {"SP", "LF"}

\* The pieces raw texts are put together from: a fence, a line break, a blank,
\* the two ends of a JSON object, a letter (a language tag, or content) and a
\* single backtick.
Pieces == {Fence, <<"LF">>, <<"SP">>, <<"{">>, <<"}">>, <<"j">>, <<"BT">>}

RECURSIVE Flatten(_)
Flatten(pieces) ==
    IF pieces = <<>> THEN <<>> ELSE Head(pieces) \o Flatten(Tail(pieces))

RawTexts == {Flatten(ps) : ps \in SeqsUpTo(Pieces, MaxPieces)}

\* str.strip()
RECURSIVE LStrip(_)
LStrip(text) ==
    IF text # <<>> /\ Head(text) \in Whitespace THEN LStrip(Tail(text)) ELSE text

RECURSIVE RStrip(_)
RStrip(text) ==
    IF text # <<>> /\ text[Len(text)] \in Whitespace
    THEN RStrip(SubSeq(text, 1, Len(text) - 1)) ELSE text

Strip(text) == RStrip(LStrip(text))

\* str.startswith, str.endswith
StartsWith(text, prefix) ==
    Len(text) >= Len(prefix) /\ SubSeq(text, 1, Len(prefix)) = prefix

EndsWith(text, suffix) ==
    Len(text) >= Len(suffix)
    /\ SubSeq(text, Len(text) - Len(suffix) + 1, Len(text)) = suffix

\* content.split(LF, 1)[1]: the text after the first line break; IndexError
\* when there is no line break
AfterFirstLine(text) ==
    IF \E i \in 1..Len(text) : text[i] = "LF"
    THEN LET first == CHOOSE i \in 1..Len(text) :
                         /\ text[i] = "LF"
                         /\ \A k \in 1..(i - 1) : text[k] # "LF"
         IN  [err |-> "none", text |-> SubSeq(text, first + 1, Len(text))]
    ELSE [err |-> "IndexError", text |-> <<>>]

\* content.split("```", 1)[0] in place of rsplit: the text before the first marker
RemoveClosingFence_split(text) ==
    IF EndsWith(text, Fence)
    THEN LET first == CHOOSE i \in 1..(Len(text) - 2) :
                         /\ SubSeq(text, i, i + 2) = Fence
                         /\ \A k \in 1..(i - 1) : SubSeq(text, k, k + 2) # Fence
         IN  SubSeq(text, 1, first - 1)
    ELSE text

\* if content.endswith("```"): content = content.rsplit("```", 1)[0]
\* the last marker of a text that ends with one is its last three characters
RemoveClosingFence(text) ==
    IF EndsWith(text, Fence) THEN SubSeq(text, 1, Len(text) - 3) ELSE text

\* _clean_json_response: [err, text]
clean_json_response(content) ==
    LET stripped == Strip(content)
    IN  IF StartsWith(stripped, Fence)
        THEN LET rest == AfterFirstLine(stripped)
             IN  IF rest.err # "none" THEN rest
                 ELSE [err |-> "none", text |-> Strip(RemoveClosingFence(rest.text))]
        ELSE [err |-> "none", text |-> stripped]

InitSanitize ==
    /\ provider = [kind |-> "openai", model |-> "gpt-4-turbo"]
    /\ total_cost = 0
    /\ total_tokens = 0
    /\ analysis_history = <<>>
    /\ inflight = 0
    /\ delegated = 0
    /\ last = NoStep
    /\ adapter_io \in [called : {FALSE}, text : RawTexts]
    /\ dg = NoDiagram
    /\ settings = SettingsOf(provider)
    /\ audit = NoAudit

\* _clean_json_response applied to the content of a response
CleanJsonResponse ==
    /\ ~adapter_io.called
    /\ adapter_io' = [called |-> TRUE, text |-> adapter_io.text,
                      cleaned |-> clean_json_response(adapter_io.text)]
    /\ UNCHANGED <<provider, settings, audit, total_cost, total_tokens, analysis_history, inflight,
                   delegated, last, dg>>

NextSanitize == CleanJsonResponse

SpecSanitize == InitSanitize /\ [][NextSanitize]_vars

\* A structured text: a JSON object, possibly with blanks and line breaks around it
IsStructured(text) ==
    LET stripped == Strip(text)
    IN  stripped # <<>> /\ Head(stripped) = "{" /\ stripped[Len(stripped)] = "}"

\* text inside a code fence: the opening fence with a language tag or none, a
\* line break, the text, and the closing fence on a line of its own or not
Wrap(text, tag, closing_on_own_line) ==
    Fence \o tag \o <<"LF">> \o text
          \o (IF closing_on_own_line THEN <<"LF">> ELSE <<>>) \o Fence

\* C14: for every structured text s, cleaning s wrapped in a code fence, with or
\* without a language tag, gives the text that cleaning s itself gives.
C14_FencedCleansLikeBare ==
    ( adapter_io.called /\ IsStructured(adapter_io.text) )
    => /\ adapter_io.cleaned.err = "none"
       /\ \A tag \in {<<>>, <<"j">>}, own_line \in BOOLEAN :
             clean_json_response(Wrap(adapter_io.text, tag, own_line)) = adapter_io.cleaned

\* A structured text with a fence marker inside it has been cleaned.
C14_Witness ==
    /\ adapter_io.called
    /\ IsStructured(adapter_io.text)
    /\ \E i \in 1..(Len(adapter_io.text) - 2) : SubSeq(adapter_io.text, i, i + 2) = Fence
    /\ clean_json_response(Wrap(adapter_io.text, <<"j">>, TRUE)).text = Strip(adapter_io.text)

\* C15 (as claimed): cleaning is idempotent on every text it returns, and a text
\* that does not begin with a fence comes back trimmed and otherwise unchanged.
C15_CleanIsIdempotent ==
    ( adapter_io.called /\ adapter_io.cleaned.err = "none" )
    => /\ clean_json_response(adapter_io.cleaned.text) = adapter_io.cleaned
       /\ ~StartsWith(Strip(adapter_io.text), Fence)
             => adapter_io.cleaned.text = Strip(adapter_io.text)

\* C16 (as claimed): _clean_json_response raises for no raw text.
C16_CleanNeverRaises ==
    adapter_io.called => adapter_io.cleaned.err = "none"

----------------------------------------------------------------------------
(* Claims about the repair of a diagram, its outcome and the script run     *)

\* C17: when the first execution of the diagram script fails, whatever the
\* failure, the request goes to the repair call; the repair call gets the
\* source that failed and the failure reason of that execution; and when it
\* returns, its fence-stripped answer is the source in hand (and, for
\* update_architecture, the stored source) before the re-execution.
C17_RepairGetsFailingSourceAndReason ==
    [][ /\ ( dg.executions = 0 /\ dg'.executions = 1 /\ dg'.image = "none" )
           => ( dg'.pc = "repairing" /\ dg'.error # "none" /\ dg'.code = dg.code )
        /\ ( dg.pc = "repairing" /\ dg'.repairs = dg.repairs + 1 )
           => /\ dg'.repair_code = dg.code
              /\ dg'.repair_error = dg.error
              /\ dg.error # "none"
              /\ dg'.pc = "executing"
                    => /\ dg'.code = "repaired"
                       /\ dg.endpoint = "update" => dg'.saved = "repaired" ]_vars

\* The first execution timed out, the repair call got the original source
\* and that failure, and the repaired source is about to be executed.
C17_Witness ==
    /\ dg.pc = "executing"
    /\ dg.executions = 1
    /\ dg.repairs = 1
    /\ dg.repair_code = "original"
    /\ dg.repair_error = "TimeoutExpired"
    /\ dg.code = "repaired"

\* C18: a request whose first execution failed and whose repaired script then
\* ran successfully answers with the rendered image and the repaired source,
\* has stored the repaired source, and made exactly one repair call.
C18_RepairedRunSucceeds ==
    ( /\ dg.pc = "idle"
      /\ dg.response.status = 200
      /\ dg.executions = 2
      /\ dg.image # "none" )
    => /\ dg.response.image = dg.image
       /\ dg.response.diagram = "repaired"
       /\ dg.saved = "repaired"
       /\ dg.repairs = 1

\* A generate-architecture request answered after a failed first execution
\* and a successful execution of the repaired script.
C18_Witness ==
    /\ dg.pc = "idle"
    /\ dg.endpoint = "generate"
    /\ dg.response.status = 200
    /\ dg.executions = 2
    /\ dg.repairs = 1
    /\ dg.response.image = "architecture_diagram.png"
    /\ dg.response.diagram = "repaired"

\* C19 (as claimed): a request whose executions all failed, or whose repair
\* call failed, answers normally with no image, with the last-known source
\* (the repaired one when the repair call returned, else the original) and with
\* the last failure reason in one of the fields of the response.
C19_FailedFinalCarriesSourceAndReason ==
    ( /\ dg.pc = "idle"
      /\ dg.response.status = 200
      /\ dg.executions >= 1
      /\ dg.image = "none" )
    => /\ dg.response.image = "none"
       /\ dg.response.diagram = dg.code
       /\ dg.code = IF dg.executions = 2 THEN "repaired" ELSE "original"
       /\ \E field \in {"report", "diagram", "image"} : dg.response[field] = dg.error

\* C20: whenever execute_diagram_code is not running, whichever way it ended,
\* its temporary directory does not exist and the script's process is not
\* running.
C20_ScriptRunIsTornDown ==
    dg.pc # "running" => ( ~dg.tmpdir /\ dg.proc # "running" )

\* An execution has ended by timeout: the process was killed and the
\* directory is gone.
C20_Witness ==
    /\ dg.pc = "repairing"
    /\ dg.executions = 1
    /\ dg.error = "TimeoutExpired"
    /\ dg.proc = "killed"
    /\ ~dg.tmpdir

----------------------------------------------------------------------------
(* Claims about concurrent calls, the ledger and the gate over time         *)

\* C21: in every interleaving of analyze_stuck_scan calls (and of the other
\* operations) on one engine, the history holds one entry for each adapter call
\* that returned and the cumulative cost is the sum of what the calls added:
\* no append and no addition is lost.
C21_NoLostAccounting ==
    /\ Len(analysis_history) = audit.returned
    /\ total_cost = audit.added + audit.other_added

\* A call has just completed and been accounted while another one, admitted
\* before that completion, is still in flight.
C21_Witness ==
    /\ last.op = "analyze_stuck_scan"
    /\ last.phase = "return"
    /\ inflight >= 1
    /\ audit.returned >= 1
    /\ audit.added > 0
    /\ Len(analysis_history) = audit.returned

----------------------------------------------------------------------------
(* estimate_cost on its own: every adapter, every model id of its PRICING   *)
(* table and one id outside it, two successive estimates                    *)

EstimateProviders ==
    {[kind |-> "openai", model |-> m] : m \in DOMAIN OPENAI_PRICING \cup {"o1-mini"}}
    \cup {[kind |-> "claude", model |-> m] : m \in DOMAIN CLAUDE_PRICING \cup {"claude-2"}}
    \cup {[kind |-> "ollama", model |-> "llama3"]}

TokenCounts == 0 .. MaxTokens

Estimate(i, o) ==
    [input_tokens |-> i, output_tokens |-> o, cost |-> estimate_cost(provider, i, o)]

InitEstimate ==
    /\ provider \in EstimateProviders
    /\ total_cost = 0
    /\ total_tokens = 0
    /\ analysis_history = <<>>
    /\ inflight = 0
    /\ delegated = 0
    /\ last = NoStep
    /\ adapter_io = [called |-> FALSE, estimates |-> <<>>]
    /\ dg = NoDiagram
    /\ settings = SettingsOf(provider)
    /\ audit = NoAudit

\* provider.estimate_cost(input_tokens, output_tokens): reads PRICING, writes
\* nothing; the observer keeps the first two estimates
EstimateCost(i, o) ==
    /\ Len(adapter_io.estimates) < 2
    /\ adapter_io' = [called |-> TRUE, estimates |-> Append(adapter_io.estimates, Estimate(i, o))]
    /\ UNCHANGED <<provider, settings, audit, total_cost, total_tokens,
                   analysis_history, inflight, delegated, last, dg>>

NextEstimate == \E i \in TokenCounts, o \in TokenCounts : EstimateCost(i, o)

SpecEstimate == InitEstimate /\ [][NextEstimate]_vars

\* C22: estimate_cost of each adapter is monotonically non-decreasing in both
\* arguments: for every model id, when neither token count of a second estimate
\* is below that of a first, the second estimate is not below the first.
C22_EstimateCostMonotone ==
    Len(adapter_io.estimates) = 2 =>
        LET a == adapter_io.estimates[1]
            b == adapter_io.estimates[2]
        IN  (a.input_tokens <= b.input_tokens /\ a.output_tokens <= b.output_tokens)
                => a.cost <= b.cost

\* Two estimates on a priced model id outside the table, the second with more
\* input and more output, and a strictly larger cost.
C22_Witness ==
    /\ Len(adapter_io.estimates) = 2
    /\ provider.kind = "openai"
    /\ provider.model \notin DOMAIN OPENAI_PRICING
    /\ adapter_io.estimates[1].input_tokens < adapter_io.estimates[2].input_tokens
    /\ adapter_io.estimates[1].output_tokens < adapter_io.estimates[2].output_tokens
    /\ adapter_io.estimates[1].cost < adapter_io.estimates[2].cost

----------------------------------------------------------------------------
(* Claims about the router's providers                                      *)

\* C23: a missing credential or an unsupported backend is detected when the
\* agent is constructed and never per call: construction raises exactly when
\* the selected provider's key is empty or the provider name is unsupported,
\* no agent exists afterwards, no agent operation runs without an agent, and no
\* later operation makes a provider call with a missing credential.
C23_NoCallWithMissingCredential ==
    /\ provider = NoAgent <=>
          \/ settings.AI_PROVIDER \notin {"openai", "claude"}
          \/ settings.AI_PROVIDER = "openai" /\ settings.OPENAI_API_KEY = ""
          \/ settings.AI_PROVIDER = "claude" /\ settings.ANTHROPIC_API_KEY = ""
    /\ last.invoked => provider # NoAgent
    /\ adapter_io.called => adapter_io.api_key # ""

\* C24: execute_diagram_code returns an image if and only if the script exits
\* with status zero within the timeout and at least one PNG file exists in the
\* working directory; the image is architecture_diagram.png when that file
\* exists and otherwise another PNG of the directory; a nonzero exit, a
\* timeout and the absence of any PNG each end the execution as a failure with
\* a failure reason.
C24_ImageIffCleanExitAndPng ==
    (dg.script # NoScriptRun /\ dg.pc # "running") =>
        LET good == dg.script.status = "exit 0" /\ dg.script.files # {}
        IN  /\ dg.image # "none" <=> good
            /\ good => /\ dg.image \in dg.script.files
                       /\ "architecture_diagram.png" \in dg.script.files
                             => dg.image = "architecture_diagram.png"
            /\ ~good => dg.error # "none"

\* The script exited with status zero and left only a PNG of another name,
\* which is the image returned.
C24_Witness ==
    /\ dg.pc = "respond"
    /\ dg.script = [status |-> "exit 0", files |-> {"other.png"}]
    /\ dg.image = "other.png"

\* C25: the budget gate is absorbing when calls are sequential: once an
\* analyze_stuck_scan call has been denied for budget with no admitted call in
\* flight, every later analyze_stuck_scan call on the engine is denied too
\* (none is admitted, so none is in flight later either); over such steps the
\* cumulative cost does not decrease and the history does not grow.
C25_GateIsAbsorbing ==
    [][ audit.idle_denials >= 1
        => /\ inflight = 0
           /\ inflight' = 0
           /\ total_cost' >= total_cost
           /\ analysis_history' = analysis_history
           /\ ( last'.op = "analyze_stuck_scan" /\ last'.phase = "call" )
                 => ( last'.gate = "deny" /\ ~last'.invoked ) ]_vars

\* A second call has been denied after a first one, on a history that is not
\* empty.
C25_Witness ==
    /\ audit.idle_denials = 2
    /\ Len(analysis_history) >= 1
    /\ last.op = "analyze_stuck_scan"
    /\ last.gate = "deny"

\* C26: on the OpenAI adapter, every successful triage_finding,
\* generate_remediation, explain_timeout and execute_prompt call (the last
\* through generate_architecture_overview) adds its cost, a positive amount, to
\* the cumulative cost the budget gate reads, and adds no history entry.
C26_OtherCallsChargeTheGateLedger ==
    [][ ( /\ provider.kind = "openai"
          /\ delegated' = delegated + 1
          /\ last'.op \in {"triage_finding", "generate_remediation", "explain_timeout",
                           "generate_architecture_overview"}
          /\ last'.result = "model" )
        => /\ \E r \in OtherResponses :
                /\ r.api = "ok"
                /\ estimate_cost(provider, r.usage.prompt, r.usage.completion) > 0
                /\ total_cost' = total_cost
                                   + estimate_cost(provider, r.usage.prompt, r.usage.completion)
           /\ get_total_cost' = total_cost'
           /\ analysis_history' = analysis_history ]_vars

\* Such calls alone moved the gate: no analyze_stuck_scan call has reached the
\* adapter, the ledger started at zero (where a call is admitted), every cent
\* of it came from the other operations, and analyze_stuck_scan has just been
\* denied.
C26_Witness ==
    /\ provider.kind = "openai"
    /\ audit.returned = 0
    /\ inflight = 0
    /\ analysis_history = <<>>
    /\ total_cost = audit.other_added
    /\ ~BudgetExceeded(0, 0)
    /\ BudgetExceeded(total_cost, 0)
    /\ last.op = "analyze_stuck_scan"
    /\ last.phase = "call"
    /\ last.gate = "deny"

\* C27: the admission check and the accounting of one analyze_stuck_scan call
\* are separated by the awaited adapter call.  A call is admitted on the ledger
\* alone, however many admitted calls are still in flight, and an admitted call
\* whose collection succeeds invokes the adapter; an admitted call completes
\* with the adapter's analysis and is accounted whatever the ledger says by
\* then; so the adapter calls that complete over budget are bounded by the
\* calls in flight and by nothing else.
C27_AdmissionAndAccountingAreApart ==
    [][ /\ ( /\ last'.op = "analyze_stuck_scan"
             /\ last'.phase = "call"
             /\ total_cost <= max_cost_per_analysis
                                * (IF Len(analysis_history) = 0 THEN 1
                                   ELSE Len(analysis_history)) )
           => /\ last'.gate = "admit"
              /\ last'.invoked <=> inflight' = inflight + 1
              /\ ~last'.invoked => last'.result.root_cause
                                     = "AI analysis unavailable: collector error"
        /\ ( last'.op = "analyze_stuck_scan" /\ last'.phase = "return" )
           => /\ inflight >= 1
              /\ inflight' = inflight - 1
              /\ last'.invoked
              /\ last'.gate = "admit"
              /\ last'.result.root_cause # "AI analysis unavailable: Cost budget exceeded"
              /\ Len(analysis_history') = Len(analysis_history) + 1
        /\ audit'.late_returns - audit.late_returns <= inflight ]_vars

\* Two calls were admitted before either completed; the first completion alone
\* put the average above the ceiling (no other operation added cost), and the
\* second call then completed and was accounted.
C27_Witness ==
    /\ audit.late_returns >= 1
    /\ audit.other_added = 0
    /\ audit.returned = 2
    /\ Len(analysis_history) = 2
    /\ last.op = "analyze_stuck_scan"
    /\ last.phase = "return"
    /\ inflight = 0

\* C28: the repair, refine and validate-prompt calls of the architecture
\* endpoints run on an OpenAI adapter constructed anew for the request: each
\* such call leaves the cumulative cost, the token count and the history that
\* the agent's budget gate reads as they were, whatever the call cost.
C28_RequestProvidersLeaveAgentLedger ==
    [][ ( adapter_io'.called /\ adapter_io' # adapter_io )
        => /\ adapter_io'.endpoint \in {"auto-fix", "refine", "validate"}
           /\ total_cost' = total_cost
           /\ total_tokens' = total_tokens
           /\ analysis_history' = analysis_history
           /\ get_total_cost' = get_total_cost ]_vars

\* A request's repair call and then a refine call, each answered at a cost,
\* after the agent's overview call: the agent's ledger holds the overview's
\* cost and nothing else.
C28_Witness ==
    /\ adapter_io.called
    /\ adapter_io.endpoint = "refine"
    /\ adapter_io.total_cost > 0
    /\ dg.repairs = 1
    /\ dg.endpoint = "generate"
    /\ total_cost > 0
    /\ total_cost = audit.other_added

\* C29: with the Ollama (or Docker AI) adapter the cumulative cost is 0 after
\* every sequence of operations, so for any non-negative ceiling the budget
\* check does not deny, and no analyze_stuck_scan call is denied for budget,
\* whatever the number of admitted calls and the tokens used.
C29_OllamaIsNeverDenied ==
    provider.kind = "ollama"
    => /\ total_cost = 0
       /\ get_total_cost = 0
       /\ \A ceiling \in {0, 1, max_cost_per_analysis} :
             ~( IF Len(analysis_history) > 0
                THEN total_cost > ceiling * Len(analysis_history)
                ELSE total_cost > ceiling )
       /\ ~BudgetExceeded(get_total_cost, Len(analysis_history))
       /\ last.gate # "deny"

\* On Ollama, a call has just been admitted after two completed calls that
\* used tokens and after calls of the other operations.
C29_Witness ==
    /\ provider.kind = "ollama"
    /\ Len(analysis_history) >= 2
    /\ total_tokens > 100
    /\ delegated >= 1
    /\ last.op = "analyze_stuck_scan"
    /\ last.phase = "call"
    /\ last.gate = "admit"
    /\ last.invoked

\* C30: if reading the cumulative cost or collecting the diagnostic data
\* raises inside analyze_stuck_scan, the call returns the orchestrator's
\* fallback analysis (confidence 0, estimated_cost 0, tokens_used 0) without
\* raising, the adapter's analyze_stuck_scan is not invoked, and the history,
\* the cumulative cost and the token count are unchanged.
C30_EarlyFailureGivesFallback ==
    [][ ( /\ last'.op = "analyze_stuck_scan"
          /\ last'.phase = "call"
          /\ last'.returned
          /\ last'.gate # "deny" )
        => /\ ~last'.raised
           /\ ~last'.invoked
           /\ last'.result.root_cause \in {"AI analysis unavailable: cost read error",
                                           "AI analysis unavailable: collector error"}
           /\ last'.result.confidence = 0
           /\ last'.result.estimated_cost = 0
           /\ last'.result.tokens_used = 0
           /\ last'.result.remediation_suggestions = <<>>
           /\ analysis_history' = analysis_history
           /\ total_cost' = total_cost
           /\ total_tokens' = total_tokens
           /\ inflight' = inflight ]_vars

\* Reading the cost has just raised in a call made while another call was in
\* flight, on a ledger and a history that are not empty.
C30_Witness ==
    /\ last.op = "analyze_stuck_scan"
    /\ last.phase = "call"
    /\ last.gate = "none"
    /\ last.returned
    /\ ~last.invoked
    /\ last.result.root_cause = "AI analysis unavailable: cost read error"
    /\ inflight >= 1
    /\ Len(analysis_history) >= 1
    /\ total_cost > 0

====
